---- MODULE Spec2Model ----
(***************************************************************************)
(* Model of scripts/export_tableau_data.py: the five extract builders      *)
(* (export_orders_fact, export_product_sales, export_customer_segments,    *)
(* export_monthly_metrics, export_seller_performance) and main, which      *)
(* opens the SQLite connection, runs the builders in sequence inside       *)
(* try/finally and closes the connection.                                  *)
(*                                                                         *)
(* Data conventions.  A nullable value (SQL NULL, pandas NaN/NaT/<NA>) is  *)
(* the empty tuple None; a present value v is the one-tuple Some(v).       *)
(* Timestamps are counted in clock ticks, TicksPerDay ticks to a day and   *)
(* DaysPerMonth days to a calendar month.  Arithmetic on floats is exact   *)
(* arithmetic on fractions.  Pass-through reference columns (city, state,  *)
(* zip prefix, product dimensions) are left out of the rows.               *)
(***************************************************************************)
EXTENDS Integers, Sequences, FiniteSets, TLC

VARIABLES
  src,      \* the relational source (the SQLite database), read-only
  conn,     \* main's connection: "none", "open" or "closed"
  pc,       \* main's position
  exc,      \* whether an exception is propagating out of main
  bpc,      \* per builder: "idle", "running", "derived", "written", "failed"
  nread,    \* per builder: the number of its queries that have returned
  locals,   \* per builder: the frames its queries returned
  frame,    \* per builder: the frame it has derived (empty before that)
  sink,     \* per extract: whether this run wrote the CSV, and its rows
  score_row, \* the score row handed to segment_customer by rfm.apply
  applied   \* the rfm_score and segment computed for score_row, once applied

vars == <<src, conn, pc, exc, bpc, nread, locals, frame, sink, score_row, applied>>

(***************************************************************************)
(* Bounds of the model.                                                    *)
(***************************************************************************)
NOrders == 3
NSellers == 3
MaxTs == 4
TicksPerDay == 2
DaysPerMonth == 2

(***************************************************************************)
(* Nullable values and sequence helpers.                                   *)
(***************************************************************************)
None == <<>>
Some(v) == <<v>>
Val(x) == x[1]

\* step applied to the value of v (and of w): an intermediate result is
\* computed once, as a Python local is, and then used by the next statement
With(v, step(_)) == CHOOSE out \in {step(x) : x \in {v}} : TRUE
With2(v, w, step(_, _)) == CHOOSE out \in {step(x, y) : x \in {v}, y \in {w}} : TRUE

RECURSIVE Concat(_)
Concat(ss) == IF ss = <<>> THEN <<>> ELSE Head(ss) \o Concat(Tail(ss))

Flatten(ss) == With(ss, Concat)

RECURSIVE Sum(_)
Sum(s) == IF s = <<>> THEN 0 ELSE Head(s) + Sum(Tail(s))

SumSeq(s) == With(s, Sum)

RECURSIVE Ascending(_)
Ascending(S) ==
  IF S = {} THEN <<>>
  ELSE With(CHOOSE x \in S : \A y \in S : x <= y,
            LAMBDA m : <<m>> \o Ascending(S \ {m}))

\* the elements of a set of numbers in ascending order
SortedSeq(S) == With(S, Ascending)

Range(s) == With(s, LAMBDA v : {v[i] : i \in 1..Len(v)})

\* the positions of keys, in order, whose element is the first with its key
FirstPositions(keys) ==
  With(keys, LAMBDA ks :
    SelectSeq([i \in 1..Len(ks) |-> i],
              LAMBDA i : \A j \in 1..(i - 1) : ks[j] # ks[i]))

(***************************************************************************)
(* The relational source.  A database is built from one profile per order: *)
(* the order row, the customer behind its customer_id, its payment rows,   *)
(* its review rows and its single order item.                              *)
(***************************************************************************)
OrderIds == 1..NOrders
SellerIds == 1..NSellers
Ts == 0..MaxTs
OptTs == {None} \cup {Some(t) : t \in Ts}
Statuses == {"delivered", "shipped"}

BaseProfile(o) ==
  [status    |-> "delivered",
   purchase  |-> Some((o - 1) * TicksPerDay),
   delivered |-> Some((o - 1) * TicksPerDay + 1),
   estimated |-> Some(o * TicksPerDay),
   unique    |-> o,
   payments  |-> <<10 * o>>,
   reviews   |-> <<5>>,
   seller    |-> ((o - 1) % NSellers) + 1,
   price     |-> 10 * o]

Base == [o \in OrderIds |-> BaseProfile(o)]

\* order 1 takes every status and every combination of present and absent timestamps
TimingProfiles ==
  {[Base EXCEPT ![1].status = st, ![1].purchase = pu,
                ![1].delivered = de, ![1].estimated = es] :
     st \in Statuses, pu \in OptTs, de \in OptTs, es \in OptTs}

\* orders 2 and 3 may belong to the person behind order 1; order 3 moves in time
CustomerProfiles ==
  {[Base EXCEPT ![2].unique = u2, ![3].unique = u3,
                ![3].purchase = Some(t), ![3].delivered = Some(t),
                ![3].estimated = Some(t), ![3].status = st] :
     u2 \in {1, 2}, u3 \in {1, 3}, t \in Ts, st \in Statuses}

\* sellers, item prices and reviews of the first orders vary
SellerProfiles ==
  {[Base EXCEPT ![1].seller = s1, ![2].seller = s2,
                ![2].price = p2, ![3].price = p3,
                ![1].reviews = r1, ![2].reviews = r2, ![1].status = st] :
     s1 \in SellerIds, s2 \in SellerIds, p2 \in {10, 20}, p3 \in {10, 30},
     r1 \in {<<>>, <<1>>, <<5>>}, r2 \in {<<>>, <<1, 5>>},
     st \in Statuses}

\* the database holding the first n orders of a profile
FirstOrders(n, prof) ==
  [orders |->
     [o \in 1..n |->
        [order_id |-> o, customer_id |-> o, order_status |-> prof[o].status,
         order_purchase_timestamp |-> prof[o].purchase,
         order_delivered_customer_date |-> prof[o].delivered,
         order_estimated_delivery_date |-> prof[o].estimated]],
   customers |->
     [o \in 1..n |->
        [customer_id |-> o, customer_unique_id |-> prof[o].unique]],
   order_payments |->
     Flatten([o \in 1..n |->
        [i \in 1..Len(prof[o].payments) |->
           [order_id |-> o, payment_value |-> prof[o].payments[i]]]]),
   order_reviews |->
     Flatten([o \in 1..n |->
        [i \in 1..Len(prof[o].reviews) |->
           [order_id |-> o, review_score |-> prof[o].reviews[i]]]]),
   order_items |->
     [o \in 1..n |->
        [order_id |-> o, seller_id |-> prof[o].seller,
         price |-> prof[o].price, freight_value |-> 1]],
   sellers |-> [s \in SellerIds |-> [seller_id |-> s]]]

Database(prof) == FirstOrders(NOrders, prof)

Databases ==
  {Database(p) : p \in TimingProfiles \cup CustomerProfiles \cup SellerProfiles}

(***************************************************************************)
(* pandas and SQL building blocks.                                         *)
(***************************************************************************)
\* a column of a frame
Column(rows, col(_)) == With(rows, LAMBDA v : [i \in 1..Len(v) |-> col(v[i])])

\* DataFrame.merge(right, on=key, how='left'): every left row is kept; a left
\* row without a match carries the missing marker in the right-hand columns
MergeRow(l, matches, missing) ==
  IF matches = <<>> THEN <<l @@ missing>>
  ELSE [j \in 1..Len(matches) |-> l @@ matches[j]]

LeftMerge(L, R, key(_), missing) ==
  With2(L, R, LAMBDA left, right :
    Flatten([i \in 1..Len(left) |->
      MergeRow(left[i], SelectSeq(right, LAMBDA r : key(r) = key(left[i])),
               missing)]))

\* SQL JOIN (inner) of two row sequences
JoinRow(l, matches) == [j \in 1..Len(matches) |-> l @@ matches[j]]

InnerJoin(L, R, match(_, _)) ==
  With2(L, R, LAMBDA left, right :
    Flatten([i \in 1..Len(left) |->
      JoinRow(left[i], SelectSeq(right, LAMBDA r : match(left[i], r)))]))

\* DataFrame.drop_duplicates(subset=key, keep='first')
DropDuplicatesKeepFirst(rows, key(_)) ==
  With(rows, LAMBDA v :
    Column(FirstPositions(Column(v, key)), LAMBDA p : v[p]))

\* (end - start).dt.days: the whole-day component of a timedelta (floor);
\* NaT when either timestamp is NaT
TimedeltaDays(start, end) ==
  IF start = None \/ end = None THEN None
  ELSE Some((Val(end) - Val(start)) \div TicksPerDay)

\* a - b on float columns: NaN when either side is NaN
NanSub(a, b) ==
  IF a = None \/ b = None THEN None ELSE Some(Val(a) - Val(b))

\* a <= b on float columns: a comparison with NaN is False
NanLe(a, b) == a # None /\ b # None /\ Val(a) <= Val(b)

\* .dt.to_period('M') of a timestamp
ToPeriodM(t) ==
  IF t = None THEN None ELSE Some((Val(t) \div TicksPerDay) \div DaysPerMonth)

\* Series.dropna()
NonMissing(vals) == Column(SelectSeq(vals, LAMBDA v : v # None), Val)

\* Series.max() / Series.min(): missing entries are skipped
LargestOf(xs) ==
  With(Range(xs), LAMBDA S :
    IF S = {} THEN None ELSE Some(CHOOSE m \in S : \A y \in S : y <= m))

SmallestOf(xs) ==
  With(Range(xs), LAMBDA S :
    IF S = {} THEN None ELSE Some(CHOOSE m \in S : \A y \in S : m <= y))

MaxTime(ts) == LargestOf(NonMissing(ts))
MinTime(ts) == SmallestOf(NonMissing(ts))

\* Series.sum(): missing entries are skipped, the sum of none is 0
NanSum(vals) == SumSeq(NonMissing(vals))

\* the payment rows of order id
PaymentGroup(db, id) == SelectSeq(db.order_payments, LAMBDA p : p.order_id = id)

PaidOrders(db) == SortedSeq({p.order_id : p \in Range(db.order_payments)})

\* SELECT order_id, SUM(payment_value) as total_payment_value, COUNT(*) as
\* payment_count FROM order_payments GROUP BY order_id
PaymentTotals(db) ==
  Column(PaidOrders(db),
         LAMBDA id :
           With(PaymentGroup(db, id), LAMBDA ps :
             [order_id |-> id,
              total_payment_value |->
                Some(SumSeq(Column(ps, LAMBDA p : p.payment_value))),
              payment_count |-> Some(Len(ps))]))

\* SELECT order_id, SUM(payment_value) as payment_value FROM order_payments
\* GROUP BY order_id
PaymentsByOrder(db) ==
  Column(PaidOrders(db),
         LAMBDA id :
           [order_id |-> id,
            payment_value |->
              Some(SumSeq(Column(PaymentGroup(db, id), LAMBDA p : p.payment_value)))])

\* SELECT order_id, review_score FROM order_reviews
ReviewRows(db) ==
  Column(db.order_reviews,
         LAMBDA r : [order_id |-> r.order_id, review_score |-> Some(r.review_score)])

\* orders o [LEFT] JOIN customers c ON o.customer_id = c.customer_id
CustomerIdKey(r) == r.customer_id

OrdersLeftJoinCustomers(db) ==
  LeftMerge(db.orders,
            Column(db.customers,
                   LAMBDA c : [customer_id |-> c.customer_id,
                               customer_unique_id |-> Some(c.customer_unique_id)]),
            CustomerIdKey, [customer_unique_id |-> None])

OrdersJoinCustomers(db) ==
  SelectSeq(OrdersLeftJoinCustomers(db), LAMBDA r : r.customer_unique_id # None)

OrderKey(r) == r.order_id

(***************************************************************************)
(* export_orders_fact                                                      *)
(***************************************************************************)
orders_fact_query(n, db) ==
  CASE n = 1 -> OrdersLeftJoinCustomers(db)
    [] n = 2 -> PaymentTotals(db)
    [] n = 3 -> ReviewRows(db)

\* a mask that selects every order, delivered or not
every_order_mask(row) == TRUE

delivered_mask(row) == row.order_status = "delivered"

actual_delivery_days(row) ==
  IF delivered_mask(row)
  THEN TimedeltaDays(row.order_purchase_timestamp, row.order_delivered_customer_date)
  ELSE None

estimated_delivery_days(row) ==
  IF delivered_mask(row)
  THEN TimedeltaDays(row.order_purchase_timestamp, row.order_estimated_delivery_date)
  ELSE None

delivery_delay_days(row) ==
  NanSub(actual_delivery_days(row), estimated_delivery_days(row))

\* (delay <= 0).map({True: 'On Time', False: 'Late'}), then None outside the mask
on_time_delivery(row) ==
  IF ~delivered_mask(row) THEN None
  ELSE IF NanLe(delivery_delay_days(row), Some(0)) THEN Some("On Time")
  ELSE Some("Late")

\* the calculated fields added to a merged order row
orders_fact_row(row) ==
  row @@
  [order_month |-> ToPeriodM(row.order_purchase_timestamp),
   actual_delivery_days |-> actual_delivery_days(row),
   estimated_delivery_days |-> estimated_delivery_days(row),
   delivery_delay_days |-> delivery_delay_days(row),
   on_time_delivery |-> on_time_delivery(row)]

NoPaymentTotals == [total_payment_value |-> None, payment_count |-> None]
NoPayment == [payment_value |-> None]
NoReview == [review_score |-> None]

\* orders.merge(payments).merge(reviews), both how='left' on order_id, the
\* reviews deduplicated per order
MergePaymentsReviews(orders, payments, nopayment, reviews) ==
  LeftMerge(LeftMerge(orders, payments, OrderKey, nopayment),
            DropDuplicatesKeepFirst(reviews, OrderKey), OrderKey, NoReview)

export_orders_fact(L) ==
  Column(MergePaymentsReviews(L[1], L[2], NoPaymentTotals, L[3]), orders_fact_row)

(***************************************************************************)
(* export_product_sales (product and seller reference columns left out)    *)
(***************************************************************************)
\* SELECT order_id, order_purchase_timestamp, order_status FROM orders
OrderDateRow(o) ==
  [order_id |-> o.order_id,
   order_purchase_timestamp |-> o.order_purchase_timestamp,
   order_status |-> Some(o.order_status)]

OrderDates(db) == Column(db.orders, OrderDateRow)

product_sales_query(n, db) ==
  CASE n = 1 -> db.order_items
    [] n = 2 -> OrderDates(db)

product_sales_row(row) ==
  row @@
  [order_month |-> ToPeriodM(row.order_purchase_timestamp),
   total_item_value |-> row.price + row.freight_value]

export_product_sales(L) ==
  Column(LeftMerge(L[1], L[2], OrderKey,
                   [order_purchase_timestamp |-> None, order_status |-> None]),
         product_sales_row)

(***************************************************************************)
(* pd.qcut(x, 5, labels=..., duplicates=...).  Bin edges are the quantiles *)
(* 0, 0.2, ..., 1 of the non-missing values with linear interpolation;     *)
(* edges and values are held multiplied by QuantileGroups.                 *)
(***************************************************************************)
QuantileGroups == 5

RECURSIVE InsertSorted(_, _)
InsertSorted(x, s) ==
  IF s = <<>> THEN <<x>>
  ELSE IF x <= Head(s) THEN <<x>> \o s
  ELSE <<Head(s)>> \o InsertSorted(x, Tail(s))

RECURSIVE InsertionSort(_)
InsertionSort(s) ==
  IF s = <<>> THEN <<>>
  ELSE With(InsertionSort(Tail(s)), LAMBDA t : InsertSorted(Head(s), t))

SortInts(s) == With(s, InsertionSort)

\* the edge at position h / QuantileGroups of the sorted values xs
QuantileEdge(xs, h) ==
  IF h % QuantileGroups = 0 THEN QuantileGroups * xs[(h \div QuantileGroups) + 1]
  ELSE QuantileGroups * xs[(h \div QuantileGroups) + 1]
       + (h % QuantileGroups)
           * (xs[(h \div QuantileGroups) + 2] - xs[(h \div QuantileGroups) + 1])

\* the QuantileGroups + 1 bin edges of the sorted, non-empty values xs
QuantileEdges(xs) ==
  [k \in 1..(QuantileGroups + 1) |-> QuantileEdge(xs, (Len(xs) - 1) * (k - 1))]

\* the distinct edges, ascending; none when there is no value
UniqueBins(xs) ==
  IF xs = <<>> THEN <<>> ELSE SortedSeq(Range(QuantileEdges(xs)))

QcutBins(vals) == With(SortInts(NonMissing(vals)), UniqueBins)

HasDuplicateEdges(bins) == Len(bins) < QuantileGroups + 1

\* ValueError: "Bin edges must be unique" (duplicates='raise'), or "Bin labels
\* must be one fewer than the number of bin edges" after duplicates were dropped
QcutRaises(vals, labels, drop) ==
  With(QcutBins(vals), LAMBDA bins :
    IF HasDuplicateEdges(bins) /\ ~drop THEN TRUE
    ELSE Len(labels) # Len(bins) - 1)

\* bins.searchsorted(x, side='left'), with the lowest edge included in bin 1
QcutIds(x, bins) ==
  IF x = bins[1] THEN 1 ELSE Cardinality({b \in 1..Len(bins) : bins[b] < x})

QcutPick(ids, bins, labels) ==
  IF ids = 0 \/ ids = Len(bins) THEN None ELSE Some(labels[ids])

QcutOne(v, bins, labels) ==
  IF v = None THEN None
  ELSE With(QcutIds(QuantileGroups * Val(v), bins),
            LAMBDA ids : QcutPick(ids, bins, labels))

Qcut(vals, labels) ==
  With2(vals, QcutBins(vals), LAMBDA xs, bins :
    Column(xs, LAMBDA v : QcutOne(v, bins, labels)))

\* Series.rank(method='first') of values without missing entries
RankFirst(vals) ==
  With(vals, LAMBDA xs :
    [i \in 1..Len(xs) |->
       Some(1 + Cardinality({j \in 1..Len(xs) : Val(xs[j]) < Val(xs[i])})
              + Cardinality({j \in 1..(i - 1) : xs[j] = xs[i]}))])

(***************************************************************************)
(* export_customer_segments                                                *)
(***************************************************************************)
\* customers c JOIN orders o ON c.customer_id = o.customer_id
\* WHERE o.order_status = 'delivered'
DeliveredCustomerOrders(db) ==
  SelectSeq(OrdersJoinCustomers(db), LAMBDA r : r.order_status = "delivered")

customer_segments_query(n, db) ==
  CASE n = 1 -> DeliveredCustomerOrders(db)
    [] n = 2 -> PaymentsByOrder(db)

PurchaseTime(r) == r.order_purchase_timestamp

\* customer_orders['order_purchase_timestamp'].max() + pd.Timedelta(days=1)
analysis_date(customer_orders) ==
  NanSub(MaxTime(Column(customer_orders, PurchaseTime)), Some(0 - TicksPerDay))

rfm_row(id, g, first, last, today) ==
  [customer_unique_id |-> id,
   recency |-> TimedeltaDays(last, today),
   frequency |-> Some(Len(g)),
   monetary |-> Some(NanSum(Column(g, LAMBDA r : r.payment_value))),
   first_purchase_date |-> first,
   last_purchase_date |-> last]

rfm_group(id, g, today) ==
  With2(MinTime(Column(g, PurchaseTime)), MaxTime(Column(g, PurchaseTime)),
        LAMBDA first, last : rfm_row(id, g, first, last, today))

\* customer_orders.groupby('customer_unique_id').agg(...): one row per customer
\* in key order
rfm_groups(customer_orders, today) ==
  Column(SortedSeq({Val(r.customer_unique_id) : r \in Range(customer_orders)}),
         LAMBDA id :
           With(SelectSeq(customer_orders, LAMBDA r : Val(r.customer_unique_id) = id),
                LAMBDA g : rfm_group(id, g, today)))

rfm_frame(customer_orders) ==
  With(analysis_date(customer_orders),
       LAMBDA today : rfm_groups(customer_orders, today))

rfm_metrics(L) == With(LeftMerge(L[1], L[2], OrderKey, NoPayment), rfm_frame)

RecencyLabels == <<5, 4, 3, 2, 1>>
ScoreLabels == <<1, 2, 3, 4, 5>>

Recency(r) == r.recency
Frequency(r) == r.frequency
Monetary(r) == r.monetary

rfm_raises(rfm) ==
  \/ QcutRaises(Column(rfm, Recency), RecencyLabels, TRUE)
  \/ QcutRaises(RankFirst(Column(rfm, Frequency)), ScoreLabels, FALSE)
  \/ QcutRaises(Column(rfm, Monetary), ScoreLabels, TRUE)

customer_segments_raises(L) == With(rfm_metrics(L), rfm_raises)

\* Series.astype('Int64').astype(str): a digit, or '<NA>' for a missing score
ScoreStr(score) ==
  IF score = None THEN "<NA>"
  ELSE CASE Val(score) = 1 -> "1" [] Val(score) = 2 -> "2" [] Val(score) = 3 -> "3"
         [] Val(score) = 4 -> "4" [] Val(score) = 5 -> "5"

rfm_score(r, f, m) == ScoreStr(r) \o ScoreStr(f) \o ScoreStr(m)

segment_rule(r, f) ==
  IF r >= 4 /\ f >= 4 THEN "Champions"
  ELSE IF r >= 3 /\ f >= 3 THEN "Loyal Customers"
  ELSE IF r >= 4 /\ f <= 2 THEN "New Customers"
  ELSE IF r >= 3 /\ f <= 2 THEN "Potential Loyalists"
  ELSE IF r <= 2 /\ f >= 3 THEN "At Risk"
  ELSE IF r <= 2 /\ f <= 2 THEN "Hibernating"
  ELSE "Need Attention"

\* the table with its first two rules exchanged
segment_loyal_first(r_score, f_score) ==
  IF r_score = None \/ f_score = None THEN "Unknown"
  ELSE IF Val(r_score) >= 3 /\ Val(f_score) >= 3 THEN "Loyal Customers"
  ELSE segment_rule(Val(r_score), Val(f_score))

segment_customer(r_score, f_score) ==
  IF r_score = None \/ f_score = None THEN "Unknown"
  ELSE segment_rule(Val(r_score), Val(f_score))

segment_row(r, r_score, f_score, m_score) ==
  r @@
  [r_score |-> r_score, f_score |-> f_score, m_score |-> m_score,
   rfm_score |-> rfm_score(r_score, f_score, m_score),
   segment |-> segment_customer(r_score, f_score),
   customer_tenure_days |-> TimedeltaDays(r.first_purchase_date, r.last_purchase_date)]

segment_rows(rfm, r_scores, f_scores, m_scores) ==
  [i \in 1..Len(rfm) |-> segment_row(rfm[i], r_scores[i], f_scores[i], m_scores[i])]

rfm_segments(rfm) ==
  With(<<Qcut(Column(rfm, Recency), RecencyLabels),
         Qcut(RankFirst(Column(rfm, Frequency)), ScoreLabels),
         Qcut(Column(rfm, Monetary), ScoreLabels)>>,
       LAMBDA score : segment_rows(rfm, score[1], score[2], score[3]))

export_customer_segments(L) == With(rfm_metrics(L), rfm_segments)

(***************************************************************************)
(* Means and rounding.  A mean is the fraction <<sum, count>> of the       *)
(* non-missing entries, missing when there are none; Series.round(d) of a  *)
(* fraction is the integer count of units of 10^-d (ties go to even).      *)
(***************************************************************************)
MeanOf(xs) == IF xs = <<>> THEN None ELSE Some(<<SumSeq(xs), Len(xs)>>)

NanMean(vals) == MeanOf(NonMissing(vals))

BoolMean(flags) ==
  IF flags = <<>> THEN None
  ELSE Some(<<Len(SelectSeq(flags, LAMBDA b : b)), Len(flags)>>)

RoundHalfEven(num, den) ==
  IF 2 * (num % den) < den THEN num \div den
  ELSE IF 2 * (num % den) > den THEN (num \div den) + 1
  ELSE IF (num \div den) % 2 = 0 THEN num \div den ELSE (num \div den) + 1

RoundFraction(x, units) ==
  IF x = None THEN None ELSE Some(RoundHalfEven(Val(x)[1] * units, Val(x)[2]))

Distinct(vals) == Cardinality(Range(vals))

(***************************************************************************)
(* export_monthly_metrics                                                  *)
(***************************************************************************)
monthly_metrics_query(n, db) ==
  CASE n = 1 -> OrdersJoinCustomers(db)
    [] n = 2 -> PaymentsByOrder(db)
    [] n = 3 -> ReviewRows(db)

monthly_durations(r, dd, ed) ==
  r @@ [order_month |-> ToPeriodM(r.order_purchase_timestamp),
        delivery_days |-> dd, estimated_days |-> ed,
        is_on_time |-> NanLe(dd, ed)]

monthly_order_row(r) ==
  monthly_durations(
    r,
    TimedeltaDays(r.order_purchase_timestamp, r.order_delivered_customer_date),
    TimedeltaDays(r.order_purchase_timestamp, r.order_estimated_delivery_date))

\* the delivered orders with their month, durations and on-time flag
monthly_delivered(L) ==
  Column(SelectSeq(MergePaymentsReviews(L[1], L[2], NoPayment, L[3]),
                   LAMBDA r : r.order_status = "delivered"),
         monthly_order_row)

MonthKey(r) == r.order_month
CustomerOf(r) == r.customer_unique_id

\* delivered.groupby('customer_unique_id')['order_month'].min()
first_purchase_month(delivered, cust) ==
  MinTime(Column(SelectSeq(delivered, LAMBDA r : r.customer_unique_id = cust),
                 MonthKey))

\* NaT == NaT is False
is_new_customer(delivered, r) ==
  /\ r.order_month # None
  /\ r.order_month = first_purchase_month(delivered, r.customer_unique_id)

MonthsOf(rows) ==
  SortedSeq({Val(r.order_month) : r \in {x \in Range(rows) : x.order_month # None}})

MonthGroup(rows, m) == SelectSeq(rows, LAMBDA r : r.order_month = Some(m))

\* delivered[delivered['is_new_customer']].groupby('order_month')
\* ['customer_unique_id'].nunique(): one row per month that has a new customer
new_customers_by_month(isnew) ==
  Column(MonthsOf(isnew),
         LAMBDA m : [order_month |-> Some(m),
                     new_customers |->
                       Some(Distinct(Column(MonthGroup(isnew, m), CustomerOf)))])

new_customers_frame(delivered) ==
  With(SelectSeq(delivered, LAMBDA r : is_new_customer(delivered, r)),
       new_customers_by_month)

monthly_group(m, g) ==
  [order_month |-> Some(m),
   total_orders |-> Len(g),
   unique_customers |-> Some(Distinct(Column(g, CustomerOf))),
   total_revenue |-> NanSum(Column(g, LAMBDA r : r.payment_value)),
   avg_order_value |->
     RoundFraction(NanMean(Column(g, LAMBDA r : r.payment_value)), 100),
   avg_review_score |->
     RoundFraction(NanMean(Column(g, LAMBDA r : r.review_score)), 100),
   avg_delivery_days |->
     RoundFraction(NanMean(Column(g, LAMBDA r : r.delivery_days)), 10),
   on_time_delivery_rate |->
     RoundFraction(BoolMean(Column(g, LAMBDA r : r.is_on_time)), 10000)]

\* delivered.groupby('order_month').agg(...): rows without a month are dropped
monthly_frame(delivered) ==
  Column(MonthsOf(delivered),
         LAMBDA m : With(MonthGroup(delivered, m), LAMBDA g : monthly_group(m, g)))

with_returning(r) ==
  r @@ [returning_customers |-> NanSub(r.unique_customers, r.new_customers)]

monthly_metrics(delivered) ==
  Column(LeftMerge(monthly_frame(delivered), new_customers_frame(delivered),
                   MonthKey, [new_customers |-> None]),
         with_returning)

export_monthly_metrics(L) == With(monthly_delivered(L), monthly_metrics)

(***************************************************************************)
(* export_seller_performance                                               *)
(***************************************************************************)
SellerItemRow(r) ==
  [seller_id |-> r.seller_id, order_id |-> r.order_id,
   price |-> r.price, freight_value |-> r.freight_value]

\* sellers s JOIN order_items oi JOIN orders o WHERE o.order_status = 'delivered'
SellerItems(db) ==
  Column(SelectSeq(InnerJoin(InnerJoin(db.sellers, db.order_items,
                                       LAMBDA s, oi : s.seller_id = oi.seller_id),
                             db.orders, LAMBDA oi, o : oi.order_id = o.order_id),
                   LAMBDA r : r.order_status = "delivered"),
         SellerItemRow)

SellerReviewRow(r) ==
  [seller_id |-> r.seller_id, order_id |-> r.order_id,
   review_score |-> Some(r.review_score)]

\* order_reviews r JOIN order_items oi ON r.order_id = oi.order_id
SellerReviews(db) ==
  Column(InnerJoin(db.order_reviews, db.order_items,
                   LAMBDA r, oi : r.order_id = oi.order_id),
         SellerReviewRow)

\* JULIANDAY(b) - JULIANDAY(a): a real number of days, held in clock ticks
JulianDiff(a, b) ==
  IF a = None \/ b = None THEN None ELSE Some(Val(b) - Val(a))

SellerDeliveryRow(r) ==
  [seller_id |-> r.seller_id, order_id |-> r.order_id,
   delivery_days |-> JulianDiff(r.order_purchase_timestamp,
                                r.order_delivered_customer_date),
   estimated_days |-> JulianDiff(r.order_purchase_timestamp,
                                 r.order_estimated_delivery_date)]

\* order_items oi JOIN orders o WHERE delivered AND both delivery dates NOT NULL
SellerDelivery(db) ==
  Column(SelectSeq(InnerJoin(db.order_items, db.orders,
                             LAMBDA oi, o : oi.order_id = o.order_id),
                   LAMBDA r : /\ r.order_status = "delivered"
                              /\ r.order_delivered_customer_date # None
                              /\ r.order_estimated_delivery_date # None),
         SellerDeliveryRow)

\* a mean of tick counts as a fraction of days
InDays(m) ==
  IF m = None THEN None ELSE Some(<<Val(m)[1], Val(m)[2] * TicksPerDay>>)

seller_performance_query(n, db) ==
  CASE n = 1 -> SellerItems(db)
    [] n = 2 -> SellerReviews(db)
    [] n = 3 -> SellerDelivery(db)

OrderSellerKey(r) == <<r.order_id, r.seller_id>>
SellerKey(r) == r.seller_id

SellersOf(rows) == SortedSeq({r.seller_id : r \in Range(rows)})
SellerGroup(rows, id) == SelectSeq(rows, LAMBDA r : r.seller_id = id)

\* delivery['is_on_time'] = delivery['delivery_days'] <= delivery['estimated_days']
is_on_time(r) == r @@ [is_on_time |-> NanLe(r.delivery_days, r.estimated_days)]

seller_revenue_row(id, g) ==
  [seller_id |-> id,
   total_orders |-> Distinct(Column(g, OrderKey)),
   total_revenue |-> SumSeq(Column(g, LAMBDA r : r.price)),
   total_freight |-> SumSeq(Column(g, LAMBDA r : r.freight_value))]

seller_revenue(items) ==
  Column(SellersOf(items),
         LAMBDA id : With(SellerGroup(items, id),
                          LAMBDA g : seller_revenue_row(id, g)))

seller_reviews_row(id, scores) ==
  [seller_id |-> id,
   avg_review_score |-> NanMean(scores),
   review_count |-> Some(Len(NonMissing(scores)))]

seller_reviews(reviews) ==
  Column(SellersOf(reviews),
         LAMBDA id : With(Column(SellerGroup(reviews, id), LAMBDA r : r.review_score),
                          LAMBDA scores : seller_reviews_row(id, scores)))

seller_delivery_row(id, g) ==
  [seller_id |-> id,
   on_time_rate |-> BoolMean(Column(g, LAMBDA r : r.is_on_time)),
   avg_delivery_days |-> InDays(NanMean(Column(g, LAMBDA r : r.delivery_days)))]

seller_delivery(delivery) ==
  Column(SellersOf(delivery),
         LAMBDA id : With(SellerGroup(delivery, id),
                          LAMBDA g : seller_delivery_row(id, g)))

\* the merged per-seller metrics, before the scores
seller_metrics(L) ==
  LeftMerge(
    LeftMerge(With(L[1], seller_revenue),
              With(DropDuplicatesKeepFirst(L[2], OrderSellerKey), seller_reviews),
              SellerKey, [avg_review_score |-> None, review_count |-> None]),
    With(DropDuplicatesKeepFirst(Column(L[3], is_on_time), OrderSellerKey),
         seller_delivery),
    SellerKey, [on_time_rate |-> None, avg_delivery_days |-> None])

MinOf(xs) == Val(SmallestOf(xs))
MaxOf(xs) == Val(LargestOf(xs))

\* (x - lo) / (hi - lo) * 100 as a fraction; 0 / 0 is NaN
MinMaxScale(x, lo, hi) ==
  IF hi - lo = 0 THEN None ELSE Some(<<(x - lo) * 100, hi - lo>>)

revenue_score(revenues, i) ==
  With2(MinOf(revenues), MaxOf(revenues),
        LAMBDA lo, hi : MinMaxScale(revenues[i], lo, hi))

\* 0.3 * a + 0.4 * (b / 5 * 100) + 0.3 * (c * 100) for fractions a, b, c,
\* rounded to hundredths
Weighted(a, b, c) ==
  RoundHalfEven(30 * a[1] * b[2] * c[2] + 800 * b[1] * a[2] * c[2]
                  + 3000 * c[1] * a[2] * b[2],
                a[2] * b[2] * c[2])

\* (revenue_score * 0.3 + review_score_normalized * 0.4 + delivery_score * 0.3)
\* .round(2), in hundredths; NaN when any of the three is NaN
composite_score(rev, review, ontime) ==
  IF rev = None \/ review = None \/ ontime = None THEN None
  ELSE Some(Weighted(Val(rev), Val(review), Val(ontime)))

\* the rank with the default ascending=True
rank_ascending(scores, i) ==
  IF scores[i] = None THEN None
  ELSE Some(1 + Cardinality({j \in 1..Len(scores) :
                               scores[j] # None /\ Val(scores[j]) < Val(scores[i])}))

\* Series.rank(ascending=False, method='min').astype('Int64'); NaN is not ranked
seller_rank(scores, i) ==
  IF scores[i] = None THEN None
  ELSE Some(1 + Cardinality({j \in 1..Len(scores) :
                               scores[j] # None /\ Val(scores[j]) > Val(scores[i])}))

with_scores(r, rs) ==
  r @@ [revenue_score |-> rs,
        composite_score |-> composite_score(rs, r.avg_review_score, r.on_time_rate)]

score_rows(sp, revenues) ==
  [i \in 1..Len(sp) |->
     With(revenue_score(revenues, i), LAMBDA rs : with_scores(sp[i], rs))]

seller_scores(sp) ==
  With2(sp, Column(sp, LAMBDA r : r.total_revenue), score_rows)

\* the rounded metrics and the rank
with_rank(r, rank) ==
  [r EXCEPT !.avg_review_score = RoundFraction(@, 100),
            !.on_time_rate = RoundFraction(@, 10000),
            !.avg_delivery_days = RoundFraction(@, 10)]
  @@ [seller_rank |-> rank]

rank_rows(scored, composites) ==
  [i \in 1..Len(scored) |-> with_rank(scored[i], seller_rank(composites, i))]

seller_ranks(scored) ==
  With2(scored, Column(scored, LAMBDA r : r.composite_score), rank_rows)

export_seller_performance(L) ==
  With(seller_metrics(L), LAMBDA sp : With(seller_scores(sp), seller_ranks))

(***************************************************************************)
(* The run: main and the steps of the builders.                            *)
(***************************************************************************)
Builders ==
  <<"orders_fact", "product_sales", "customer_segments",
    "monthly_metrics", "seller_performance">>

BuilderNames == Range(Builders)

\* the number of pd.read_sql_query calls of a builder
NumQueries(k) ==
  CASE k = "orders_fact" -> 3
    [] k = "product_sales" -> 2
    [] k = "customer_segments" -> 2
    [] k = "monthly_metrics" -> 3
    [] k = "seller_performance" -> 3

\* the result of the n-th pd.read_sql_query call of a builder
RunQuery(k, n, db) ==
  CASE k = "orders_fact" -> orders_fact_query(n, db)
    [] k = "product_sales" -> product_sales_query(n, db)
    [] k = "customer_segments" -> customer_segments_query(n, db)
    [] k = "monthly_metrics" -> monthly_metrics_query(n, db)
    [] k = "seller_performance" -> seller_performance_query(n, db)

\* all the frames a builder reads from db
Queries(k, db) == [n \in 1..NumQueries(k) |-> RunQuery(k, n, db)]

\* whether the derivation steps of a builder raise on the frames it has read
Raises(k, L) ==
  CASE k = "customer_segments" -> customer_segments_raises(L)
    [] OTHER -> FALSE

\* how the derivation steps of a builder end on the frames it has read
Outcome(k, L) == IF Raises(k, L) THEN "failed" ELSE "derived"

\* the frame a builder hands to to_csv
Derived(k, L) ==
  CASE k = "orders_fact" -> export_orders_fact(L)
    [] k = "product_sales" -> export_product_sales(L)
    [] k = "customer_segments" -> export_customer_segments(L)
    [] k = "monthly_metrics" -> export_monthly_metrics(L)
    [] k = "seller_performance" -> export_seller_performance(L)

InitRun ==
  /\ conn = "none"
  /\ pc = "connect"
  /\ exc = FALSE
  /\ bpc = [k \in BuilderNames |-> "idle"]
  /\ nread = [k \in BuilderNames |-> 0]
  /\ locals = [k \in BuilderNames |-> <<>>]
  /\ frame = [k \in BuilderNames |-> <<>>]
  /\ sink = [k \in BuilderNames |-> [written |-> FALSE, rows |-> <<>>]]

NoRow == [r_score |-> None, f_score |-> None, m_score |-> None]

InitApply == score_row = NoRow /\ applied = None

Init == src \in Databases /\ InitRun /\ InitApply

\* pd.read_sql_query(query, conn): the next query of builder k succeeds
Query(k) ==
  /\ bpc[k] \in {"idle", "running"}
  /\ nread[k] < NumQueries(k)
  /\ conn = "open"
  /\ bpc' = [bpc EXCEPT ![k] = "running"]
  /\ nread' = [nread EXCEPT ![k] = @ + 1]
  /\ locals' = [j \in BuilderNames |->
                  IF j = k THEN Append(locals[k], RunQuery(k, nread[k] + 1, src))
                  ELSE locals[j]]
  /\ UNCHANGED <<src, conn, frame, sink>>

\* the next query of builder k raises (source unavailable, connection not open);
\* the builder's frames are dropped with its stack frame
QueryFails(k) ==
  /\ bpc[k] \in {"idle", "running"}
  /\ nread[k] < NumQueries(k)
  /\ bpc' = [bpc EXCEPT ![k] = "failed"]
  /\ locals' = [locals EXCEPT ![k] = <<>>]
  /\ UNCHANGED <<src, conn, nread, frame, sink>>

\* the merges and derived columns of builder k, after its last query
Derive(k) ==
  /\ bpc[k] = "running"
  /\ nread[k] = NumQueries(k)
  /\ Outcome(k, locals[k]) = "derived"
  /\ bpc' = [bpc EXCEPT ![k] = "derived"]
  /\ frame' = [j \in BuilderNames |->
                 IF j = k THEN Derived(k, locals[k]) ELSE frame[j]]
  /\ UNCHANGED <<src, conn, nread, locals, sink>>

DeriveFails(k) ==
  /\ bpc[k] = "running"
  /\ nread[k] = NumQueries(k)
  /\ Outcome(k, locals[k]) = "failed"
  /\ bpc' = [bpc EXCEPT ![k] = "failed"]
  /\ locals' = [locals EXCEPT ![k] = <<>>]
  /\ UNCHANGED <<src, conn, nread, frame, sink>>

\* a write that does not wait for the derivation
WriteEarly(k) == bpc[k] \in {"running", "derived"}

\* the builder has its frame ready for to_csv
WriteReady(k) == bpc[k] = "derived"

\* every builder writing the one file
OneSink(k) == "orders_fact"

\* EXPORT_PATH / '<k>.csv': each builder has its own file
SinkOf(k) == k

\* frame.to_csv(EXPORT_PATH / '<k>.csv') and return frame: the builder's frames
\* read from the source go with its stack frame
Write(k) ==
  /\ WriteReady(k)
  /\ bpc' = [bpc EXCEPT ![k] = "written"]
  /\ sink' = [sink EXCEPT ![SinkOf(k)] = [written |-> TRUE, rows |-> frame[k]]]
  /\ locals' = [locals EXCEPT ![k] = <<>>]
  /\ UNCHANGED <<src, conn, nread, frame>>

\* main calls the builders one after the other: builder i runs once the
\* builders before it have returned
Turn(i) == \A j \in 1..(i - 1) : bpc[Builders[j]] = "written"

\* conn = sqlite3.connect(DB_PATH)
Connect ==
  /\ pc = "connect"
  /\ conn' = "open"
  /\ pc' = "try"
  /\ UNCHANGED <<src, exc, bpc, nread, locals, frame, sink, score_row, applied>>

ConnectFails ==
  /\ pc = "connect"
  /\ pc' = "raised"
  /\ exc' = TRUE
  /\ UNCHANGED <<src, conn, bpc, nread, locals, frame, sink, score_row, applied>>

\* one step of the try block: the builder whose turn it is advances; an
\* exception leaves the try block for the finally clause
TryNext(before, after) ==
  IF after = "failed" THEN "finally"
  ELSE IF after = "written" /\ before = Len(Builders) THEN "summary"
  ELSE "try"

\* main's side of a step of builder i
InTry(i) ==
  /\ pc = "try"
  /\ Turn(i)
  /\ pc' = TryNext(i, bpc'[Builders[i]])
  /\ exc' = (bpc'[Builders[i]] = "failed")
  /\ UNCHANGED <<score_row, applied>>

TryQuery(i) == Query(Builders[i]) /\ InTry(i)
TryQueryFails(i) == QueryFails(Builders[i]) /\ InTry(i)
TryDerive(i) == Derive(Builders[i]) /\ InTry(i)
TryDeriveFails(i) == DeriveFails(Builders[i]) /\ InTry(i)
TryWrite(i) == Write(Builders[i]) /\ InTry(i)

\* the summary prints after the last builder
Summary ==
  /\ pc = "summary"
  /\ pc' = "finally"
  /\ UNCHANGED <<src, conn, exc, bpc, nread, locals, frame, sink, score_row, applied>>

\* conn.close() as the last statement of the try block, without finally
CloseOnSuccess ==
  /\ pc = "finally"
  /\ conn' = IF exc THEN conn ELSE "closed"
  /\ pc' = IF exc THEN "raised" ELSE "done"
  /\ UNCHANGED <<src, exc, bpc, nread, locals, frame, sink, score_row, applied>>

\* finally: conn.close()
Close ==
  /\ pc = "finally"
  /\ conn' = "closed"
  /\ pc' = IF exc THEN "raised" ELSE "done"
  /\ UNCHANGED <<src, exc, bpc, nread, locals, frame, sink, score_row, applied>>

Next ==
  \/ Connect
  \/ ConnectFails
  \/ \E i \in 1..Len(Builders) : TryQuery(i)
  \/ \E i \in 1..Len(Builders) : TryQueryFails(i)
  \/ \E i \in 1..Len(Builders) : TryDerive(i)
  \/ \E i \in 1..Len(Builders) : TryDeriveFails(i)
  \/ \E i \in 1..Len(Builders) : TryWrite(i)
  \/ Summary
  \/ Close

Spec == Init /\ [][Next]_vars


(***************************************************************************)
(* The builders run in any order and interleaved against one open          *)
(* connection and an available source, each as main calls it.              *)
(***************************************************************************)
AnyOrderProfiles ==
  {[Base EXCEPT ![1].status = st, ![1].purchase = pu, ![2].unique = u2] :
     st \in Statuses, pu \in {None, Some(0), Some(TicksPerDay)}, u2 \in {1, 2}}

\* main is one sequential thread: it takes its next step whenever it has one
InitFair == src \in {Database(p) : p \in AnyOrderProfiles} /\ InitRun /\ InitApply

FairSpec == InitFair /\ [][Next]_vars /\ WF_vars(Next)

InitAnyOrder ==
  /\ src \in {Database(p) : p \in AnyOrderProfiles}
  /\ conn = "open"
  /\ pc = "try"
  /\ exc = FALSE
  /\ bpc = [k \in BuilderNames |-> "idle"]
  /\ nread = [k \in BuilderNames |-> 0]
  /\ locals = [k \in BuilderNames |-> <<>>]
  /\ frame = [k \in BuilderNames |-> <<>>]
  /\ sink = [k \in BuilderNames |-> [written |-> FALSE, rows |-> <<>>]]
  /\ InitApply

\* nothing of main moves while the builders run
Detached == UNCHANGED <<pc, exc, score_row, applied>>

AnyQuery(k) == Query(k) /\ Detached
AnyDerive(k) == Derive(k) /\ Detached
AnyDeriveFails(k) == DeriveFails(k) /\ Detached
AnyWrite(k) == Write(k) /\ Detached

NextAnyOrder ==
  \/ \E k \in BuilderNames : AnyQuery(k)
  \/ \E k \in BuilderNames : AnyDerive(k)
  \/ \E k \in BuilderNames : AnyDeriveFails(k)
  \/ \E k \in BuilderNames : AnyWrite(k)

SpecAnyOrder == InitAnyOrder /\ [][NextAnyOrder]_vars

(***************************************************************************)
(* rfm.apply(segment_customer, axis=1) and the rfm_score concatenation on  *)
(* one row of scores.                                                      *)
(***************************************************************************)
OptScores == {None} \cup {Some(n) : n \in 1..QuantileGroups}

InitSegment ==
  /\ src = Database(Base)
  /\ InitRun
  /\ score_row \in [r_score : OptScores, f_score : OptScores, m_score : OptScores]
  /\ applied = None

Apply ==
  /\ applied = None
  /\ applied' = Some([rfm_score |-> rfm_score(score_row.r_score, score_row.f_score, score_row.m_score),
                      segment |-> segment_customer(score_row.r_score, score_row.f_score)])
  /\ UNCHANGED <<src, conn, pc, exc, bpc, nread, locals, frame, sink, score_row>>

NextSegment == Apply

SpecSegment == InitSegment /\ [][NextSegment]_vars

(***************************************************************************)
(* Properties.  The rows of an extract are the rows its sink holds once    *)
(* this run has written it.                                                *)
(***************************************************************************)
Rows(k) == IF sink[k].written THEN sink[k].rows ELSE <<>>

\* C1 (as the code has it): in orders_fact, actual_delivery_days is present
\* exactly on the delivered orders whose purchase and customer-delivery
\* timestamps are both present, and estimated_delivery_days exactly on the
\* delivered orders whose purchase and estimated-delivery timestamps are both
\* present; a non-delivered order has neither.
C1_DurationsWhereTimestamps ==
  \A r \in Range(Rows("orders_fact")) :
    /\ r.actual_delivery_days # None
         <=> /\ r.order_status = "delivered"
             /\ r.order_purchase_timestamp # None
             /\ r.order_delivered_customer_date # None
    /\ r.estimated_delivery_days # None
         <=> /\ r.order_status = "delivered"
             /\ r.order_purchase_timestamp # None
             /\ r.order_estimated_delivery_date # None
    /\ r.order_status # "delivered"
         => r.actual_delivery_days = None /\ r.estimated_delivery_days = None

\* C1, a case: a delivered order without a customer-delivery timestamp and a
\* non-delivered order in the same written extract
C1_Witness ==
  /\ \E r \in Range(Rows("orders_fact")) :
       /\ r.order_status = "delivered"
       /\ r.order_delivered_customer_date = None
       /\ r.actual_delivery_days = None
       /\ r.estimated_delivery_days # None
  /\ \E r \in Range(Rows("orders_fact")) :
       /\ r.order_status = "delivered"
       /\ r.actual_delivery_days # None
       /\ r.estimated_delivery_days # None

\* C1 as stated: in orders_fact, actual_delivery_days and
\* estimated_delivery_days are present if and only if the order is delivered,
\* delivered orders with an absent timestamp included
C1_Original ==
  \A r \in Range(Rows("orders_fact")) :
    /\ r.actual_delivery_days # None <=> r.order_status = "delivered"
    /\ r.estimated_delivery_days # None <=> r.order_status = "delivered"

\* C2 as stated: in orders_fact, on_time_delivery is present only where both
\* durations are present, and there it is 'On Time' exactly when
\* delivery_delay_days <= 0 and 'Late' otherwise; a row with a missing
\* duration never carries 'On Time' or 'Late'
C2_OnTimeOnlyWithDurations ==
  \A r \in Range(Rows("orders_fact")) :
    IF r.actual_delivery_days # None /\ r.estimated_delivery_days # None
    THEN r.on_time_delivery =
           IF Val(r.delivery_delay_days) <= 0 THEN Some("On Time") ELSE Some("Late")
    ELSE r.on_time_delivery = None

\* C3: the connection main opened is open whenever a builder is between its
\* first query and its write, nothing of any builder or sink changes once it
\* is closed, main never ends with it open, and once open it is eventually
\* closed, after a failure at any step as after five successes
C3_ConnectionClosedOnEveryPath ==
  /\ [](\A k \in BuilderNames : bpc[k] \in {"running", "derived"} => conn = "open")
  /\ [](pc \in {"done", "raised"} => conn # "open")
  /\ [][conn = "closed" => UNCHANGED <<conn, bpc, nread, locals, frame, sink>>]_vars
  /\ (conn = "open" ~> conn = "closed")

\* C3, a case: the third builder failed after two extracts were written, and
\* the connection is closed
C3_Witness ==
  /\ conn = "closed"
  /\ exc
  /\ bpc["customer_segments"] = "failed"
  /\ sink["product_sales"].written

\* C4: a sink this run has written holds the frame its builder derived from
\* all of its queries, and that builder has returned; the sink of a builder
\* that has not completed (idle, reading, deriving or failed) is not written
C4_AllOrNothing ==
  \A k \in BuilderNames :
    /\ sink[k].written
         => /\ bpc[k] = "written"
            /\ nread[k] = NumQueries(k)
            /\ sink[k].rows = frame[k]
            /\ sink[k].rows = Derived(k, Queries(k, src))
    /\ bpc[k] # "written" => sink[k] = [written |-> FALSE, rows |-> <<>>]

\* C4, a case: a builder failed after reading part of its queries; its sink
\* is untouched while the sink of the builder before it is written
C4_Witness ==
  /\ bpc["product_sales"] = "failed"
  /\ nread["product_sales"] = 1
  /\ ~sink["product_sales"].written
  /\ sink["orders_fact"].written

\* C5 as stated: in every row of monthly_metrics, new_customers and
\* returning_customers are defined, returning_customers + new_customers =
\* unique_customers and returning_customers >= 0, also in a month without a
\* first purchase
C5_NewPlusReturning ==
  \A r \in Range(Rows("monthly_metrics")) :
    /\ r.new_customers # None
    /\ r.returning_customers # None
    /\ Val(r.returning_customers) + Val(r.new_customers) = Val(r.unique_customers)
    /\ Val(r.returning_customers) >= 0

\* the number of rows of seller_performance whose composite_score is defined
\* and strictly higher than that of row i
StrictlyHigher(rows, i) ==
  Cardinality({j \in 1..Len(rows) :
                 /\ rows[j].composite_score # None
                 /\ Val(rows[j].composite_score) > Val(rows[i].composite_score)})

\* C6 (as the code has it): in seller_performance, every seller whose
\* composite_score is defined has seller_rank = 1 + the number of sellers with
\* a strictly higher composite_score, so equal scores share a rank and a
\* higher score has the numerically lower rank; a seller whose
\* composite_score is undefined has no rank
C6_MinRankOverDefinedScores ==
  \A i \in 1..Len(Rows("seller_performance")) :
    IF Rows("seller_performance")[i].composite_score = None
    THEN Rows("seller_performance")[i].seller_rank = None
    ELSE /\ Rows("seller_performance")[i].seller_rank
              = Some(1 + StrictlyHigher(Rows("seller_performance"), i))
         /\ \A j \in 1..Len(Rows("seller_performance")) :
              Rows("seller_performance")[j].composite_score # None
                => /\ Rows("seller_performance")[j].composite_score
                        = Rows("seller_performance")[i].composite_score
                      => Rows("seller_performance")[j].seller_rank
                           = Rows("seller_performance")[i].seller_rank
                   /\ Val(Rows("seller_performance")[j].composite_score)
                        > Val(Rows("seller_performance")[i].composite_score)
                      => Val(Rows("seller_performance")[j].seller_rank)
                           < Val(Rows("seller_performance")[i].seller_rank)

\* C6, a case: two sellers tied on composite_score share rank 2 behind a
\* third with a higher score, which has rank 1
C6_Witness ==
  \E i, j, k \in 1..Len(Rows("seller_performance")) :
    /\ i # j
    /\ Rows("seller_performance")[i].composite_score # None
    /\ Rows("seller_performance")[i].composite_score
         = Rows("seller_performance")[j].composite_score
    /\ Rows("seller_performance")[i].seller_rank = Some(2)
    /\ Rows("seller_performance")[j].seller_rank = Some(2)
    /\ Rows("seller_performance")[k].seller_rank = Some(1)

\* C6 as stated, on the runs in which the sellers' revenues are not all equal:
\* every seller receives the rank 1 + the number of sellers with a strictly
\* higher composite_score
C6_Original ==
  (\E i, j \in 1..Len(Rows("seller_performance")) :
     Rows("seller_performance")[i].total_revenue
       # Rows("seller_performance")[j].total_revenue)
  => \A i \in 1..Len(Rows("seller_performance")) :
       /\ Rows("seller_performance")[i].composite_score # None
       /\ Rows("seller_performance")[i].seller_rank
            = Some(1 + StrictlyHigher(Rows("seller_performance"), i))

\* C7 as stated: when all sellers of seller_performance have the same
\* total_revenue (a single seller included), revenue_score is 100 for every
\* seller, and composite_score is a number for every seller whose review and
\* on-time averages are
C7_ZeroRangeGuarded ==
  (\A i, j \in 1..Len(Rows("seller_performance")) :
     Rows("seller_performance")[i].total_revenue
       = Rows("seller_performance")[j].total_revenue)
  => \A r \in Range(Rows("seller_performance")) :
       /\ r.revenue_score # None
       /\ Val(r.revenue_score)[1] = 100 * Val(r.revenue_score)[2]
       /\ (r.avg_review_score # None /\ r.on_time_rate # None)
            => r.composite_score # None

\* the decision table of segment_customer, in its order
RuleHolds(n, r, f) ==
  CASE n = 1 -> r >= 4 /\ f >= 4
    [] n = 2 -> r >= 3 /\ f >= 3
    [] n = 3 -> r >= 4 /\ f <= 2
    [] n = 4 -> r >= 3 /\ f <= 2
    [] n = 5 -> r <= 2 /\ f >= 3
    [] n = 6 -> r <= 2 /\ f <= 2
    [] n = 7 -> TRUE

RuleSegment ==
  <<"Champions", "Loyal Customers", "New Customers", "Potential Loyalists",
    "At Risk", "Hibernating", "Need Attention">>

FirstRule(r, f) ==
  CHOOSE n \in 1..Len(RuleSegment) :
    RuleHolds(n, r, f) /\ \A m \in 1..(n - 1) : ~RuleHolds(m, r, f)

\* C8: segment_customer applied to a row gives 'Unknown' when r_score or
\* f_score is undefined, and otherwise, for every pair of scores in 1..5, the
\* segment of the first rule of the table whose predicate holds; the result
\* depends on nothing but the two scores
C8_FirstMatchingRule ==
  applied # None
  => Val(applied).segment =
          IF score_row.r_score = None \/ score_row.f_score = None THEN "Unknown"
          ELSE RuleSegment[FirstRule(Val(score_row.r_score), Val(score_row.f_score))]

\* C8, a case: the pair (5, 5) satisfies the first rule and the second, and
\* gets the segment of the first
C8_Witness ==
  /\ applied # None
  /\ score_row.r_score = Some(5)
  /\ score_row.f_score = Some(5)
  /\ RuleHolds(2, 5, 5)
  /\ Val(applied).segment = "Champions"

\* C9 as stated: in customer_segments, a customer with an undefined r_score,
\* f_score or m_score has rfm_score 'Unknown' and segment 'Unknown'
C9_UnknownWhenAnyScoreUndefined ==
  \A r \in Range(Rows("customer_segments")) :
    (r.r_score = None \/ r.f_score = None \/ r.m_score = None)
      => r.rfm_score = "Unknown" /\ r.segment = "Unknown"

\* what builder k leaves in its sink when it runs alone from its first query
\* to its return against db, as main's sequential order has it
Sequential(k, db) ==
  IF Raises(k, Queries(k, db)) THEN [written |-> FALSE, rows |-> <<>>]
  ELSE [written |-> TRUE, rows |-> Derived(k, Queries(k, db))]

DeliveredOrderIds(db) ==
  {o.order_id : o \in {x \in Range(db.orders) : x.order_status = "delivered"}}

DeliveredOnly(db) ==
  With(DeliveredOrderIds(db), LAMBDA ids :
    [db EXCEPT !.orders = SelectSeq(@, LAMBDA o : o.order_id \in ids),
               !.order_items = SelectSeq(@, LAMBDA oi : oi.order_id \in ids),
               !.order_reviews = SelectSeq(@, LAMBDA r : r.order_id \in ids)])

\* C11 as stated: every per-seller metric of seller_performance (revenue,
\* freight, order count, avg_review_score, review_count, and with them
\* composite_score) is computed only from the order items and reviews of
\* delivered orders, so the written extract is the one the builder derives
\* from the source without its non-delivered orders; a review attached to a
\* non-delivered order of a seller changes nothing
C11_ReviewsOfDeliveredOnly ==
  sink["seller_performance"].written
  => Rows("seller_performance")
       = Derived("seller_performance",
                 Queries("seller_performance", DeliveredOnly(src)))

\* C12 as stated: for every delivered order with both delivery timestamps
\* present and every seller with an item in it, the is_on_time value of
\* export_seller_performance is true exactly when orders_fact marks the order
\* 'On Time', orders delivered within the same whole-day count as estimated
\* but later in the day included
C12_SameOnTimePredicate ==
  (nread["seller_performance"] = NumQueries("seller_performance")
     /\ Len(locals["seller_performance"]) = NumQueries("seller_performance"))
  => \A d \in Range(Column(locals["seller_performance"][3], is_on_time)) :
       \A r \in Range(Rows("orders_fact")) :
         r.order_id = d.order_id
           => (d.is_on_time <=> r.on_time_delivery = Some("On Time"))

====
